---- MODULE Spec2Model ----
(***************************************************************************)
(* Model of src/src/MusicVisualizer.jsx: the audio-reactive canvas         *)
(* visualizer component.  The state is the component's refs and state      *)
(* hooks, the closure of the [audioFile] effect, and the platform objects  *)
(* the component owns (audio contexts, audio nodes, the frame-callback     *)
(* list, the window's resize listeners, the canvas).                       *)
(*                                                                         *)
(* Number representation.  JavaScript numbers are held in fixed point:     *)
(*   - normalised quantities (bassAvg, smoothedBass, pulse, Math.random()) *)
(*     in units of 1/ONE;                                                  *)
(*   - lengths (baseRadius, bar lengths, radii, distances) in units of     *)
(*     1/PX pixel;                                                         *)
(*   - angles (rotation, baseAngle, rotationSpeed) in units of 1/ANG rad.  *)
(* A division the code performs in floating point is rounded to the        *)
(* nearest unit; 0/0 is the value NaN, and NaN times anything is NaN.      *)
(***************************************************************************)
EXTENDS Integers, Sequences, FiniteSets

\* ------------------------------------------------------------------ bounds
MaxFiles == 2       \* files the user selects (handleFileChange calls)
MaxTicks == 3       \* draw() invocations in a run of Spec
MaxLongTicks == 14  \* draw() invocations in a run of SpecLong
MaxCold == 1        \* draws of a run of SpecLong whose bass bins are not all 255
MaxBarTicks == 2    \* draw() invocations in a run of SpecBars
MaxFaultTicks == 2  \* draw() invocations in a run of SpecFault
MaxPlayTicks == 2   \* draw() invocations in a run of SpecPlay
MaxAwait == 2       \* handlePlay calls suspended at await at one time

\* ------------------------------------------------------- program constants
FftSize == 2048             \* analyser.fftSize
ParticleCount == 70         \* initParticles(70, baseRadius)
barsCount == 128
wavePoints == 256
DefaultCanvasWidth == 300   \* a canvas element without width/height attributes
DefaultCanvasHeight == 150

ONE == 100 * 100            \* fixed-point unit of normalised quantities
PX == 10 * 10               \* fixed-point unit of lengths
ANG == 10000 * 1000         \* fixed-point unit of angles
TwoPi == 62831853           \* Math.PI * 2 in 1/ANG rad

\* the value of 0/0; every number the model divides is >= 0
NaN == 0 - 1
null == 0

\* ----------------------------------------------------------- input domains
\* window.devicePixelRatio
DprSet == {1, 2}
\* canvas.getBoundingClientRect(): CSS sizes of the canvas
RectSizes == { [w |-> 640, h |-> 480], [w |-> 1000, h |-> 900] }
\* getByteFrequencyData: bins below the bass cut hold lo, the others hi
FreqPatterns == { [lo |-> 0, hi |-> 0], [lo |-> 255, hi |-> 0], [lo |-> 102, hi |-> 51] }
\* the patterns whose bass bins are all 255
HotPatterns == { [lo |-> 255, hi |-> 0], [lo |-> 255, hi |-> 255] }
\* getByteTimeDomainData: sample idx holds (base + slope * idx) mod 256
TimePatterns == { [base |-> 128, slope |-> 0], [base |-> 0, slope |-> 3] }
\* Math.random(): the k-th call of one initParticles run returns
\* (seed.a + seed.b * k) mod ONE, a value of [0, 1) in 1/ONE
RandSeeds == { [a |-> ONE - 1, b |-> 0], [a |-> 0, b |-> 2731] }
\* analyser sizes of the bar-mapping check (fftSize is a power of two >= 32)
FftSizes == {32, 128, 256, 512, 2048}

\* ------------------------------------------------------------ arithmetic
Max(a, b) == IF a >= b THEN a ELSE b
Min(a, b) == IF a <= b THEN a ELSE b
Abs(a) == IF a >= 0 THEN a ELSE -a

\* a / b rounded to the nearest unit (b > 0)
RoundDiv(a, b) == (2 * a + b) \div (2 * b)

\* a / b as the code's floating-point division: 0/0 is NaN
JsDiv(a, b) == IF b = 0 THEN NaN ELSE RoundDiv(a, b)

VARIABLES
  mounted,        \* the component is mounted
  crashed,        \* an effect threw: React is about to unmount the tree
  audioFile,      \* useState audioFile: null or the id of an object URL
  nFiles,         \* object URLs created so far
  effectFile,     \* the audioFile value the [audioFile] effect last ran for
  effectAtt,      \* the attachment whose teardown closure React holds, or null
  rt,             \* refs and platform resources (see InitRt)
  rect, dpr,      \* layout size of the canvas and device pixel ratio
  canvas,         \* canvas.width, canvas.height
  fftSize,        \* analyser.fftSize
  geo,            \* effect closure: centerX, centerY, baseRadius, rotation
  lastBassRef,    \* lastBassRef.current
  particlesRef,   \* particlesRef.current
  particlesGen,   \* number of initParticles calls so far
  frame,          \* what the last draw() read and computed
  ticks,          \* draw() invocations so far
  attTicks,       \* draw() invocations per attachment
  coldTicks,      \* draw() invocations whose bass bins were not all 255
  tornDown,       \* attachments whose teardown has begun
  ctx,            \* effect closure: "2d", or "null" when getContext gave none
  paint,          \* the 2D context's drawing state, now and within the last draw()
  revoked,        \* URL.revokeObjectURL calls per object URL
  player          \* isPlaying, the audio element, handlePlay calls awaiting resume()

vars == << mounted, crashed, audioFile, nFiles, effectFile, effectAtt, rt, rect, dpr,
           canvas, fftSize, geo, lastBassRef, particlesRef, particlesGen, frame,
           ticks, attTicks, coldTicks, tornDown, ctx, paint, revoked, player >>

Atts == 1..(MaxFiles + 1)

\* ------------------------------------------------- refs and platform state
\* the platform's answers in a handler: the disconnect calls that throw,
\* whether getContext("2d") returns a context, whether new AudioContext() succeeds
NoFaults == [ faults |-> {}, ctx2d |-> TRUE, audioCtx |-> TRUE ]

InitRt ==
  [ rafRef |-> null,          \* rafRef.current
    audioCtxRef |-> null,     \* audioCtxRef.current (an attachment id)
    analyserRef |-> null,
    sourceRef |-> null,
    pending |-> {},           \* the browser's list of animation-frame callbacks
    nextRaf |-> 1,            \* next requestAnimationFrame handle
    nAtt |-> 0,               \* audio contexts created so far
    ctxState |-> [a \in Atts |-> "none"],   \* AudioContext: none, open, closed
    srcOut |-> [a \in Atts |-> FALSE],      \* source a -> analyser a connected
    anOut |-> [a \in Atts |-> FALSE],       \* analyser a -> destination connected
    elementSource |-> null,   \* the source node the audio element is bound to
    listeners |-> {},         \* attachments whose handleResize is on the window
    thrown |-> FALSE,         \* an exception is propagating
    calls |-> 0,              \* teardown routines entered in this handler
    log |-> << >>,            \* platform calls of the handler now running
    rejections |-> 0,         \* rejected promises of close() that nothing handles
    env |-> NoFaults ]        \* what the platform answers in the handler now running

\* an analysis connection: source -> analyser -> destination on an open context
ActiveConns(m) == { a \in Atts : m.ctxState[a] = "open" /\ m.srcOut[a] /\ m.anOut[a] }

Logged(m, by, op, att) ==
  [m EXCEPT !.log = Append(@, [ by |-> by, call |-> m.calls, op |-> op, att |-> att,
                                 pend |-> Cardinality(m.pending),
                                 conns |-> ActiveConns(m) ])]

Enter(m) == [m EXCEPT !.calls = @ + 1]

\* a cancel that names the handle before the latest one
cancelStaleFrame(m, by) ==
  [Logged(m, by, "cancelAnimationFrame", null)
     EXCEPT !.pending = { p \in @ : p.id # m.rafRef - 1 }]

cancelAnimationFrame(m, by) ==
  [Logged(m, by, "cancelAnimationFrame", null)
     EXCEPT !.pending = { p \in @ : p.id # m.rafRef }]

requestAnimationFrame(m, att) ==
  [Logged(m, "draw", "requestAnimationFrame", att)
     EXCEPT !.pending = @ \cup { [id |-> m.nextRaf, att |-> att] },
            !.rafRef = m.nextRaf,
            !.nextRaf = @ + 1]

\* source.disconnect(): the node's outputs are removed, or the call throws
sourceDisconnect(m, by, a) ==
  IF "source.disconnect" \in m.env.faults
  THEN [Logged(m, by, "source.disconnect", a) EXCEPT !.thrown = TRUE]
  ELSE [Logged(m, by, "source.disconnect", a) EXCEPT !.srcOut[a] = FALSE]

\* analyser.disconnect(): the node's outputs are removed, or the call throws
analyserDisconnect(m, by, a) ==
  IF "analyser.disconnect" \in m.env.faults
  THEN [Logged(m, by, "analyser.disconnect", a) EXCEPT !.thrown = TRUE]
  ELSE [Logged(m, by, "analyser.disconnect", a) EXCEPT !.anOut[a] = FALSE]

\* audioCtx.close() returns a promise and never throws: on a context that is
\* already closed the promise is rejected with InvalidStateError.  No caller
\* keeps the promise, so the rejection is handled by nothing.
contextClose(m, by, a) ==
  IF m.ctxState[a] = "closed"
  THEN [Logged(m, by, "audioCtx.close", a) EXCEPT !.rejections = @ + 1]
  ELSE [Logged(m, by, "audioCtx.close", a) EXCEPT !.ctxState[a] = "closed"]

\* cleanup() with the frame callback cancelled after the resources are released
cleanupCancelLast(m0) ==
  LET m1 == Enter(m0)
      m2 == IF m1.sourceRef # null
            THEN [sourceDisconnect(m1, "cleanup", m1.sourceRef)
                    EXCEPT !.sourceRef = null, !.thrown = FALSE]
            ELSE m1
      m3 == IF m2.analyserRef # null
            THEN [analyserDisconnect(m2, "cleanup", m2.analyserRef)
                    EXCEPT !.analyserRef = null, !.thrown = FALSE]
            ELSE m2
      m4 == IF m3.audioCtxRef # null
            THEN contextClose([m3 EXCEPT !.audioCtxRef = null], "cleanup", m3.audioCtxRef)
            ELSE m3
  IN cancelAnimationFrame(m4, "cleanup")

\* cleanup() with one try around all the releases: a throw skips the rest
cleanupOneTry(m0) ==
  LET m1 == cancelAnimationFrame(Enter(m0), "cleanup")
      m2 == IF m1.sourceRef # null
            THEN LET d == sourceDisconnect(m1, "cleanup", m1.sourceRef)
                 IN IF d.thrown THEN d ELSE [d EXCEPT !.sourceRef = null]
            ELSE m1
      m3 == IF m2.thrown \/ m2.analyserRef = null
            THEN m2
            ELSE LET d == analyserDisconnect(m2, "cleanup", m2.analyserRef)
                 IN IF d.thrown THEN d ELSE [d EXCEPT !.analyserRef = null]
      m4 == IF m3.thrown \/ m3.audioCtxRef = null
            THEN m3
            ELSE contextClose([m3 EXCEPT !.audioCtxRef = null], "cleanup", m3.audioCtxRef)
  IN [m4 EXCEPT !.thrown = FALSE]

\* cleanup(): lines 69-95.  Every disconnect has a try/catch of its own.
cleanup(m0) ==
  LET m1 == cancelAnimationFrame(Enter(m0), "cleanup")
      m2 == IF m1.sourceRef # null
            THEN [sourceDisconnect(m1, "cleanup", m1.sourceRef)
                    EXCEPT !.sourceRef = null, !.thrown = FALSE]
            ELSE m1
      m3 == IF m2.analyserRef # null
            THEN [analyserDisconnect(m2, "cleanup", m2.analyserRef)
                    EXCEPT !.analyserRef = null, !.thrown = FALSE]
            ELSE m2
      m4 == IF m3.audioCtxRef # null
            THEN contextClose([m3 EXCEPT !.audioCtxRef = null], "cleanup", m3.audioCtxRef)
            ELSE m3
  IN m4

\* the attachments cleanup() releases: those the refs name
cleanupTargets(m) == { m.sourceRef, m.analyserRef, m.audioCtxRef } \ {null}

\* the function the [audioFile] effect returns, for the closure of attachment a:
\* lines 348-359
\* One try/catch holds the three releases (lines 351-358): a throw skips
\* those that follow it.
effectTeardown(m0, a) ==
  LET m1 == cancelAnimationFrame(Enter(m0), "teardown")
      m2 == [Logged(m1, "teardown", "removeEventListener", a) EXCEPT !.listeners = @ \ {a}]
      m3 == IF m2.sourceRef # null
            THEN LET d == sourceDisconnect(m2, "teardown", m2.sourceRef)
                 IN IF d.thrown THEN d ELSE [d EXCEPT !.sourceRef = null]
            ELSE m2
      m4 == IF m3.thrown THEN m3 ELSE analyserDisconnect(m3, "teardown", a)
      m5 == IF m4.thrown THEN m4 ELSE contextClose(m4, "teardown", a)
  IN [m5 EXCEPT !.thrown = FALSE]

\* ---------------------------------------------------------------- canvas
\* resizeCanvas(canvas): lines 36-50
resizeCanvas(cv, r, d) ==
  IF cv.width # r.w * d \/ cv.height # r.h * d
  THEN [width |-> r.w * d, height |-> r.h * d]
  ELSE cv

\* geometry params of the effect closure: lines 174-178
closureGeometry(cv) ==
  [ centerX |-> RoundDiv(cv.width * PX, 2),
    centerY |-> RoundDiv(cv.height * PX, 2),
    baseRadius |-> RoundDiv(Min(cv.width, cv.height) * 12 * PX, 100),
    rotation |-> 0 ]

\* ------------------------------------------------------------- particles
\* the k-th Math.random() of one initParticles run
Random(seed, k) == (seed.a + seed.b * k) % ONE

\* initParticles(count, radius): lines 53-66
initParticles(count, radius, seed) ==
  [ i \in 1..count |->
      LET k == 6 * (i - 1) IN
      [ baseAngle |-> Random(seed, k) * (TwoPi \div ONE),
        distance |-> radius + 20 * PX + RoundDiv(Random(seed, k + 1) * 240 * PX, ONE),
        size |-> 6 * PX + RoundDiv(Random(seed, k + 2) * 30 * PX, ONE),
        baseAlpha |-> RoundDiv(6 * ONE, 100) + RoundDiv(Random(seed, k + 3) * 22, 100),
        rotationSpeed |-> RoundDiv((2 * Random(seed, k + 4) - ONE) * (ANG \div 1000), ONE),
        pulseMul |-> RoundDiv(6 * ONE, 10) + RoundDiv(Random(seed, k + 5) * 14, 10) ] ]

\* a particle loop that also lets the particles drift outwards with the pulse
advanceParticlesDrift(ps, pulse) ==
  [ i \in DOMAIN ps |->
      [ps[i] EXCEPT !.baseAngle = @ + ps[i].rotationSpeed
                                    + RoundDiv(pulse * 8 * (ANG \div 10000), ONE),
                    !.distance = @ + RoundDiv(pulse * PX, ONE)] ]

\* the particle loop of draw: lines 248-267 (only baseAngle is written)
advanceParticles(ps, pulse) ==
  [ i \in DOMAIN ps |->
      [ps[i] EXCEPT !.baseAngle = @ + ps[i].rotationSpeed
                                    + RoundDiv(pulse * 8 * (ANG \div 10000), ONE)] ]

\* ------------------------------------------------------------ bass energy
\* analyser.frequencyBinCount: line 169
frequencyBinCount(size) == size \div 2

\* Math.max(4, Math.floor(bufferLength * 0.06)): line 208
bassBinCount(N) == Max(4, (N * 6) \div 100)

\* freqData[i] for a frequency pattern
freqAt(f, N, i) == IF i < bassBinCount(N) THEN f.lo ELSE f.hi

\* freqData[i] || 0: an index outside the array reads undefined, hence 0
freqOrZero(f, N, i) == IF i >= 0 /\ i < N THEN freqAt(f, N, i) ELSE 0

\* timeData[idx] for a time-domain pattern
timeAt(t, idx) == (t.base + t.slope * idx) % 256

\* for (i = 0; i < bassBinCount; i++) bassSum += freqData[i]: lines 209-210
RECURSIVE bassSumTo(_, _, _)
bassSumTo(f, N, n) == IF n = 0 THEN 0 ELSE bassSumTo(f, N, n - 1) + freqAt(f, N, n - 1)

\* bassSum / bassBinCount / 255: line 211
bassAvg(f, N) == JsDiv(bassSumTo(f, N, bassBinCount(N)) * ONE, bassBinCount(N) * 255)

\* smoothing with smoothFactor = 0.008
smoothBassSlow(last, avg) == RoundDiv(last * 992 + avg * 8, 1000)

\* last * (1 - smoothFactor) + bassAvg * smoothFactor, smoothFactor = 0.08: lines 214-216
smoothBass(last, avg) == RoundDiv(last * 92 + avg * 8, 100)

\* the amplified value without the clamp
pulseUnclamped(smoothed) == RoundDiv(smoothed * 16, 10)

\* Math.min(1, smoothedBass * 1.6): line 220
pulseOf(smoothed) == Min(ONE, RoundDiv(smoothed * 16, 10))

\* 0.0009 + pulse * 0.006: line 244
rotationStep(pulse) == RoundDiv(9 * ANG, 10000) + RoundDiv(pulse * 6 * (ANG \div 1000), ONE)

\* --------------------------------------------------------- circular bars
\* the block sum of bar i: lines 278-279
RECURSIVE blockSum(_, _, _, _, _)
blockSum(f, N, i, step, j) ==
  IF j = 0 THEN 0 ELSE blockSum(f, N, i, step, j - 1) + freqOrZero(f, N, i * step + j - 1)

\* v = sum / step / 255: line 280
barValue(f, N, i) ==
  LET step == N \div barsCount
  IN JsDiv(blockSum(f, N, i, step, step) * ONE, step * 255)

\* maxBarLen: line 275
maxBarLen(W, H, pulse) == Min(W, H) * 28 + RoundDiv(pulse * Min(W, H) * 18, ONE)

\* barLen = v * maxBarLen: line 281
barLen(v, maxLen) == IF v = NaN THEN NaN ELSE RoundDiv(v * maxLen, ONE)

\* the bars loop: lines 276-297, bar i of the code is element i + 1
bars(f, N, W, H, pulse) ==
  [ i \in 1..barsCount |-> barLen(barValue(f, N, i - 1), maxBarLen(W, H, pulse)) ]

\* -------------------------------------------------------------- waveform
\* waveAmp: line 302
waveAmp(W, H, pulse) == Min(W, H) * 6 + RoundDiv(pulse * Min(W, H) * 8, ONE)

\* the waveform radius with the mid-scale taken as 127
waveRadiusMid127(t, len, i, baseRadius, amp) ==
  LET idx == (i * len) \div wavePoints
  IN baseRadius + RoundDiv((timeAt(t, idx) - 127) * amp, 128)

\* r = baseRadius + val * waveAmp, val = (timeData[idx] - 128) / 128: lines 305-307
waveRadius(t, len, i, baseRadius, amp) ==
  LET idx == (i * len) \div wavePoints
  IN baseRadius + RoundDiv((timeAt(t, idx) - 128) * amp, 128)

\* the waveform loop: lines 303-313, point i of the code is element i + 1
wavePath(t, len, baseRadius, amp) ==
  [ i \in 1..wavePoints |-> waveRadius(t, len, i - 1, baseRadius, amp) ]

\* the path commands of the waveform: lines 300 and 311-314
wavePathOps(n) ==
  [ i \in 1..(n + 1) |-> IF i = 1 THEN "moveTo" ELSE IF i <= n THEN "lineTo" ELSE "closePath" ]

\* ------------------------------------------------------------------ draw
\* what one draw() call reads and computes before it paints: lines 198-220
drawFrame(att, f, t, last, g, cv, size) ==
  LET smoothed == smoothBass(last, bassAvg(f, frequencyBinCount(size)))
  IN [ att |-> att, freq |-> f, time |-> t, size |-> size,
       W |-> cv.width, H |-> cv.height,
       last |-> last, smoothedBass |-> smoothed, pulse |-> pulseOf(smoothed),
       baseRadius |-> g.baseRadius ]

\* storing the amplified, clamped value as the smoothing state
lastBassWritePulse(fr) == fr.pulse

\* lastBassRef.current = smoothedBass: line 217
lastBassWrite(fr) == fr.smoothedBass

\* the bar lengths a frame paints: lines 273-297
frameBars(fr) == bars(fr.freq, frequencyBinCount(fr.size), fr.W, fr.H, fr.pulse)

\* the waveform radii a frame paints: lines 300-314
frameWave(fr) == wavePath(fr.time, fr.size, fr.baseRadius, waveAmp(fr.W, fr.H, fr.pulse))

NoFrame == [ att |-> null ]

\* a draw() that asks for two frames
drawSchedulesTwice(m, att) == requestAnimationFrame(requestAnimationFrame(m, att), att)

\* one draw() call of attachment att on the resources: line 196
drawSchedules(m, att) == requestAnimationFrame(m, att)

\* a draw() that assigns the step to rotation instead of adding it
drawGeometryAssign(g, cv, pulse) ==
  [g EXCEPT !.centerX = RoundDiv(cv.width * PX, 2),
            !.centerY = RoundDiv(cv.height * PX, 2),
            !.rotation = rotationStep(pulse)]

\* the closure variables draw() writes: lines 201-202 and 244
drawGeometry(g, cv, pulse) ==
  [g EXCEPT !.centerX = RoundDiv(cv.width * PX, 2),
            !.centerY = RoundDiv(cv.height * PX, 2),
            !.rotation = @ + rotationStep(pulse)]

\* ------------------------------------------- the 2D context's drawing state
\* the drawing state of a fresh 2D context, and of one whose canvas was resized
DefaultDrawingState ==
  [ globalCompositeOperation |-> "source-over", shadowBlur |-> 0,
    transform |-> << >>, stack |-> << >> ]

\* ctx.save()
save(c) ==
  [c EXCEPT !.stack = Append(@, [ globalCompositeOperation |-> c.globalCompositeOperation,
                                  shadowBlur |-> c.shadowBlur,
                                  transform |-> c.transform ])]

\* ctx.restore(): nothing happens on an empty stack
restore(c) ==
  IF c.stack = << >>
  THEN c
  ELSE LET top == c.stack[Len(c.stack)]
       IN [ globalCompositeOperation |-> top.globalCompositeOperation,
            shadowBlur |-> top.shadowBlur,
            transform |-> top.transform,
            stack |-> SubSeq(c.stack, 1, Len(c.stack) - 1) ]

\* ctx.translate / ctx.rotate: the transform is the list of those applied
transformed(c, t) == [c EXCEPT !.transform = Append(@, t)]

\* the particle stage up to its last fill: lines 240-267
paintParticles(c, n, pulse) ==
  LET c1 == transformed(save(c), "translate center")
      c2 == [c1 EXCEPT !.globalCompositeOperation = "lighter"]
  IN IF n > 0
     THEN [c2 EXCEPT !.shadowBlur = 28 * PX + RoundDiv(pulse * 40 * PX, ONE)]
     ELSE c2

\* a particle stage that leaves the additive blend mode on
particlesEndLighter(c) == [c EXCEPT !.shadowBlur = 0]

\* the end of the particle stage: lines 269-270
particlesEnd(c) ==
  [c EXCEPT !.shadowBlur = 0, !.globalCompositeOperation = "source-over"]

\* one bar: lines 287-296
paintBar(c) == restore(transformed(transformed(save(c), "translate bar"), "rotate bar"))

\* the bars loop, n bars to go: lines 276-297 (a bar that leaves the state as
\* it found it does so n times)
RECURSIVE paintBars(_, _)
paintBars(c, n) ==
  IF n = 0 \/ paintBar(c) = c THEN c ELSE paintBars(paintBar(c), n - 1)

\* the waveform's stroke: lines 315-319
paintWave(c, pulse) == [c EXCEPT !.shadowBlur = 14 * PX + RoundDiv(pulse * 30 * PX, ONE)]

\* the end of the waveform stage: lines 321-322
waveEnd(c) == restore([c EXCEPT !.shadowBlur = 0])

\* the center glow: lines 325-341
paintGlow(c) == restore(transformed(save(c), "translate center"))

\* what one draw() does to the drawing state c of the 2D context, with the
\* state at three places of the frame: lines 223-341
drawPaints(c, n, pulse) ==
  LET p1 == paintParticles(c, n, pulse)
      p2 == particlesEnd(p1)
      p3 == paintBars(p2, barsCount)
      p4 == paintWave(p3, pulse)
      p5 == paintGlow(waveEnd(p4))
  IN [ atStart |-> c, inParticles |-> p1, atBars |-> p2, inWave |-> p4, state |-> p5 ]

\* the drawing state before any draw
NoPaint ==
  [ atStart |-> DefaultDrawingState, inParticles |-> DefaultDrawingState,
    atBars |-> DefaultDrawingState, inWave |-> DefaultDrawingState,
    state |-> DefaultDrawingState ]

\* assigning canvas.width or canvas.height resets the context's drawing state
resizeResets(pt, cvOld, cvNew) ==
  IF cvNew # cvOld THEN [pt EXCEPT !.state = DefaultDrawingState] ELSE pt

\* draw() up to the first use of ctx (lines 196-220) writes centerX and
\* centerY; with ctx === null line 223 throws and line 244 is not reached
drawClosure(c, g, cv, pulse) ==
  IF c = "2d"
  THEN drawGeometry(g, cv, pulse)
  ELSE [g EXCEPT !.centerX = RoundDiv(cv.width * PX, 2),
                 !.centerY = RoundDiv(cv.height * PX, 2)]

\* ------------------------------------------------- the [audioFile] effect
\* canvas.getContext("2d"): line 144; the platform may answer null
getContext(m) ==
  Logged(m, "effect", IF m.env.ctx2d THEN "getContext" ELSE "getContext null", m.nAtt + 1)

\* new AudioContext() and createAnalyser(): lines 150-158; the constructor
\* throws where the platform gives no context
newAudioContext(m) ==
  LET a == m.nAtt + 1
  IN IF m.env.audioCtx
     THEN [Logged(m, "effect", "new AudioContext", a)
             EXCEPT !.nAtt = a, !.ctxState[a] = "open", !.audioCtxRef = a, !.analyserRef = a]
     ELSE [Logged(m, "effect", "new AudioContext throws", a) EXCEPT !.thrown = TRUE]

\* a createMediaElementSource whose failure is swallowed by the caller
createMediaElementSourceQuiet(m) ==
  IF m.elementSource # null
  THEN Logged(m, "effect", "createMediaElementSource throws", m.nAtt)
  ELSE [Logged(m, "effect", "createMediaElementSource", m.nAtt)
          EXCEPT !.elementSource = m.nAtt, !.sourceRef = m.nAtt]

\* audioCtx.createMediaElementSource(audioEl): line 164.  The platform binds a
\* media element to one source node for good; a second call for the same
\* element throws InvalidStateError.
createMediaElementSource(m) ==
  IF m.elementSource # null
  THEN [Logged(m, "effect", "createMediaElementSource throws", m.nAtt) EXCEPT !.thrown = TRUE]
  ELSE [Logged(m, "effect", "createMediaElementSource", m.nAtt)
          EXCEPT !.elementSource = m.nAtt, !.sourceRef = m.nAtt]

\* source.connect(analyser); analyser.connect(audioCtx.destination): lines 166-167
connectGraph(m) ==
  [Logged(m, "effect", "connect", m.nAtt)
     EXCEPT !.srcOut[m.nAtt] = TRUE, !.anOut[m.nAtt] = TRUE]

\* the effect body up to the audio graph: lines 140-167
effectSetup(m0) ==
  LET m1 == getContext(cleanup(m0))
      m2 == newAudioContext(m1)
      m3 == IF m2.sourceRef # null
            THEN [sourceDisconnect(m2, "effect", m2.sourceRef) EXCEPT !.thrown = FALSE]
            ELSE m2
      m4 == createMediaElementSource(m3)
  IN IF m2.thrown THEN m2 ELSE IF m4.thrown THEN m4 ELSE connectGraph(m4)

\* window.addEventListener("resize", handleResize): line 189
addResizeListener(m) ==
  [Logged(m, "effect", "addEventListener", m.nAtt) EXCEPT !.listeners = @ \cup {m.nAtt}]

StartHandler(m) == [m EXCEPT !.log = << >>, !.calls = 0, !.thrown = FALSE]

\* ------------------------------------------------ object URLs and playback
\* if (audioFile && audioFile.startsWith("blob:")) URL.revokeObjectURL(audioFile):
\* lines 102-103 and 390-394, for the audioFile value u the caller's closure holds
revokeObjectURL(rv, u) == IF u # null THEN [rv EXCEPT ![u] = @ + 1] ELSE rv

\* the audioFile the cleanup of the [] effect sees: the effect runs once, so
\* its closure is that of the first render, where audioFile is useState(null)
mountClosureAudioFile == null

\* useState(false) for isPlaying; an audio element that is not playing; no
\* handlePlay call suspended at await
InitPlayer == [ isPlaying |-> FALSE, playing |-> FALSE, awaiting |-> 0 ]

\* audioRef.current.play(): line 373.  The element's src is the current
\* audioFile (lines 399 and 444); without one there is nothing to play.
audioPlay(pl, src) == [pl EXCEPT !.playing = (src # null)]

\* ----------------------------------------------------------------- Init
InitCommon ==
  /\ mounted = TRUE
  /\ crashed = FALSE
  /\ audioFile = null
  /\ nFiles = 0
  /\ effectFile = null
  /\ effectAtt = null
  /\ rt = InitRt
  /\ rect \in RectSizes
  /\ dpr \in DprSet
  /\ canvas = [width |-> DefaultCanvasWidth, height |-> DefaultCanvasHeight]
  /\ geo = [centerX |-> 0, centerY |-> 0, baseRadius |-> 0, rotation |-> 0]
  /\ lastBassRef = 0
  /\ particlesRef = << >>
  /\ particlesGen = 0
  /\ frame = NoFrame
  /\ ticks = 0
  /\ attTicks = [a \in Atts |-> 0]
  /\ coldTicks = 0
  /\ tornDown = {}
  /\ ctx = "unset"
  /\ paint = NoPaint
  /\ revoked = [u \in 1..MaxFiles |-> 0]
  /\ player = InitPlayer

Init == InitCommon /\ fftSize = FftSize

\* --------------------------------------------------------------- actions
\* handleFileChange: lines 387-406 (a file was chosen)
HandleFileChange ==
  /\ mounted /\ ~crashed
  /\ audioFile = effectFile
  /\ nFiles < MaxFiles
  /\ revoked' = revokeObjectURL(revoked, audioFile)
  /\ nFiles' = nFiles + 1
  /\ audioFile' = nFiles + 1
  /\ player' = [player EXCEPT !.isPlaying = FALSE, !.playing = FALSE]
  /\ UNCHANGED << mounted, crashed, effectFile, effectAtt, rt, rect, dpr, canvas, fftSize,
                  geo, lastBassRef, particlesRef, particlesGen, frame, ticks, attTicks,
                  coldTicks, tornDown, ctx, paint >>

\* the effect body from line 142 on, m1 being the resources after the previous
\* run's teardown and m2 those after lines 140-167; c is the closure's ctx and
\* cv the canvas after resizeCanvas (line 147)
effectBody(m1, m2, c, cv, f, t, seed) ==
  LET att == m2.nAtt
      g == closureGeometry(cv)
      m3 == drawSchedules(addResizeListener(m2), att)
      fr == drawFrame(att, f, t, 0, g, cv, fftSize)
      ps == initParticles(ParticleCount, g.baseRadius, seed)
  IN /\ effectFile' = audioFile
     /\ canvas' = cv
     /\ ctx' = c
     /\ tornDown' = tornDown \cup (IF effectAtt # null THEN {effectAtt} ELSE {})
                             \cup cleanupTargets(m1)
     /\ IF m2.thrown
        THEN \* line 151 or line 164 threw: the effect ends there
             /\ rt' = m2
             /\ crashed' = TRUE
             /\ effectAtt' = null
             /\ paint' = resizeResets(paint, canvas, cv)
             /\ UNCHANGED << geo, lastBassRef, particlesRef, particlesGen, frame,
                             ticks, attTicks, coldTicks >>
        ELSE /\ particlesGen' = particlesGen + 1
             /\ lastBassRef' = lastBassWrite(fr)
             /\ geo' = drawClosure(c, g, cv, fr.pulse)
             /\ frame' = fr
             /\ ticks' = ticks + 1
             /\ attTicks' = [attTicks EXCEPT ![att] = @ + 1]
             /\ coldTicks' = coldTicks + (IF f \in HotPatterns THEN 0 ELSE 1)
             /\ IF c = "2d"
                THEN /\ rt' = m3
                     /\ crashed' = FALSE
                     /\ effectAtt' = att
                     /\ particlesRef' = advanceParticles(ps, fr.pulse)
                     /\ paint' = drawPaints(resizeResets(paint, canvas, cv).state,
                                            Len(ps), fr.pulse)
                ELSE \* ctx.clearRect on null (line 223) throws out of the first
                     \* draw() and of the effect: React gets no teardown
                     /\ rt' = [Logged(m3, "draw", "clearRect throws", att)
                                 EXCEPT !.thrown = TRUE]
                     /\ crashed' = TRUE
                     /\ effectAtt' = null
                     /\ particlesRef' = ps
                     /\ paint' = resizeResets(paint, canvas, cv)

\* the previous run's teardown (lines 348-359), if React holds one
previousTeardown(m0) ==
  IF effectAtt # null THEN effectTeardown(m0, effectAtt) ELSE m0

\* the effect body on the resources m1 the previous run's teardown left
effectRun(m1, e, f, t, seed) ==
  effectBody(m1, effectSetup(m1), IF e.ctx2d THEN "2d" ELSE "null",
             resizeCanvas(canvas, rect, dpr), f, t, seed)

\* React commits the [audioFile] effect after audioFile changed: the previous
\* run's teardown (lines 348-359), then the body (lines 137-345) with its
\* first draw() call
RunEffect(env) ==
  /\ mounted /\ ~crashed
  /\ audioFile # effectFile
  /\ ticks < env.maxTicks
  /\ \E f \in env.freqs, t \in env.times, seed \in env.seeds, e \in env.answers :
       /\ f \in HotPatterns \/ coldTicks < env.maxCold
       /\ effectRun(previousTeardown([StartHandler(rt) EXCEPT !.env = e]), e, f, t, seed)
  /\ UNCHANGED << mounted, audioFile, nFiles, rect, dpr, fftSize, revoked, player >>

\* the browser runs a pending animation-frame callback: draw(), lines 195-342
Tick(env) ==
  /\ ~crashed
  /\ ticks < env.maxTicks
  /\ \E p \in rt.pending, f \in env.freqs, t \in env.times :
       /\ f \in HotPatterns \/ coldTicks < env.maxCold
       /\ LET m0 == [StartHandler(rt) EXCEPT !.pending = @ \ {p}]
              fr == drawFrame(p.att, f, t, lastBassRef, geo, canvas, fftSize)
          IN /\ lastBassRef' = lastBassWrite(fr)
             /\ geo' = drawClosure(ctx, geo, canvas, fr.pulse)
             /\ frame' = fr
             /\ ticks' = ticks + 1
             /\ attTicks' = [attTicks EXCEPT ![p.att] = @ + 1]
             /\ coldTicks' = coldTicks + (IF f \in HotPatterns THEN 0 ELSE 1)
             /\ IF ctx = "2d"
                THEN /\ rt' = drawSchedules(m0, p.att)
                     /\ particlesRef' = advanceParticles(particlesRef, fr.pulse)
                     /\ paint' = drawPaints(paint.state, Len(particlesRef), fr.pulse)
                ELSE /\ rt' = Logged(drawSchedules(m0, p.att), "draw", "clearRect throws", p.att)
                     /\ UNCHANGED << particlesRef, paint >>
  /\ UNCHANGED << mounted, crashed, audioFile, nFiles, effectFile, effectAtt, rect, dpr,
                  canvas, fftSize, particlesGen, tornDown, ctx, revoked, player >>

\* handleResize: lines 184-188
handleResize(g, cv) ==
  [g EXCEPT !.centerX = RoundDiv(cv.width * PX, 2),
            !.centerY = RoundDiv(cv.height * PX, 2)]

\* the window is resized: the canvas is laid out anew and the window's resize
\* listeners run
Resize ==
  /\ mounted /\ ~crashed
  /\ \E r \in RectSizes :
       /\ r # rect
       /\ rect' = r
       /\ IF rt.listeners # {}
          THEN LET cv == resizeCanvas(canvas, r, dpr)
               IN /\ canvas' = cv
                  /\ geo' = handleResize(geo, cv)
                  /\ paint' = resizeResets(paint, canvas, cv)
          ELSE UNCHANGED << canvas, geo, paint >>
  /\ rt' = StartHandler(rt)
  /\ UNCHANGED << mounted, crashed, audioFile, nFiles, effectFile, effectAtt, dpr, fftSize,
                  lastBassRef, particlesRef, particlesGen, frame, ticks, attTicks,
                  coldTicks, tornDown, ctx, revoked, player >>

\* the component unmounts: the cleanup of the [] effect (lines 99-104, with
\* the audioFile of its own closure), then
\* the teardown of the [audioFile] effect (lines 348-359)
Unmount(env) ==
  /\ mounted
  /\ \E e \in env.answers :
       LET m0 == [StartHandler(rt) EXCEPT !.env = [NoFaults EXCEPT !.faults = e.faults]]
           m1 == cleanup(m0)
           m2 == IF effectAtt # null THEN effectTeardown(m1, effectAtt) ELSE m1
       IN /\ rt' = m2
          /\ tornDown' = tornDown \cup cleanupTargets(m0)
                                  \cup (IF effectAtt # null THEN {effectAtt} ELSE {})
  /\ revoked' = revokeObjectURL(revoked, mountClosureAudioFile)
  /\ mounted' = FALSE
  /\ effectAtt' = null
  /\ UNCHANGED << crashed, audioFile, nFiles, effectFile, rect, dpr, canvas, fftSize, geo,
                  lastBassRef, particlesRef, particlesGen, frame, ticks, attTicks,
                  coldTicks, ctx, paint, player >>

UnchangedByPlayback ==
  UNCHANGED << mounted, crashed, audioFile, nFiles, effectFile, effectAtt, rect, dpr, canvas,
               fftSize, geo, lastBassRef, particlesRef, particlesGen, frame, ticks, attTicks,
               coldTicks, tornDown, ctx, paint, revoked >>

\* handlePlay, up to its await or to its end: lines 365-378.  The button calls
\* it while isPlaying is false (line 570); the platform decides whether the
\* audio context is suspended.
HandlePlay ==
  /\ mounted /\ ~crashed
  /\ ~player.isPlaying
  /\ player.awaiting < MaxAwait
  /\ \E suspended \in BOOLEAN :
       /\ suspended => rt.audioCtxRef # null /\ rt.ctxState[rt.audioCtxRef] = "open"
       /\ player' = IF suspended
                    THEN [player EXCEPT !.isPlaying = TRUE, !.awaiting = @ + 1]
                    ELSE audioPlay([player EXCEPT !.isPlaying = TRUE], audioFile)
  /\ rt' = StartHandler(rt)
  /\ UnchangedByPlayback

\* the promise of audioCtxRef.current.resume() settles and a suspended
\* handlePlay goes on: play() at line 373, or the catch at lines 374-377
ResumeSettles ==
  /\ mounted /\ ~crashed
  /\ player.awaiting > 0
  /\ \E resumed \in BOOLEAN :
       player' = IF resumed
                 THEN audioPlay([player EXCEPT !.awaiting = @ - 1], audioFile)
                 ELSE [player EXCEPT !.awaiting = @ - 1, !.isPlaying = FALSE]
  /\ rt' = StartHandler(rt)
  /\ UnchangedByPlayback

\* handlePause: lines 380-385; the button calls it while isPlaying is true
HandlePause ==
  /\ mounted /\ ~crashed
  /\ player.isPlaying
  /\ player' = [player EXCEPT !.isPlaying = FALSE, !.playing = FALSE]
  /\ rt' = StartHandler(rt)
  /\ UnchangedByPlayback

\* the audio element plays to its end and fires 'ended': handleEnded, lines 121-124
Ended ==
  /\ mounted /\ ~crashed
  /\ player.playing
  /\ player' = [player EXCEPT !.isPlaying = FALSE, !.playing = FALSE]
  /\ rt' = StartHandler(rt)
  /\ UnchangedByPlayback

\* the environment of a run: what the analyser and Math.random() may return,
\* and how many draws the run holds
Env == [ freqs |-> FreqPatterns, times |-> TimePatterns, seeds |-> RandSeeds,
         maxTicks |-> MaxTicks, maxCold |-> MaxTicks, answers |-> {NoFaults} ]

Next ==
  \/ HandleFileChange
  \/ RunEffect(Env)
  \/ Tick(Env)
  \/ Resize
  \/ Unmount(Env)

Spec == Init /\ [][Next]_vars

\* long runs of ticks: the bass bins are 255 in all but MaxCold draws
EnvLong == [ freqs |-> HotPatterns \cup {[lo |-> 0, hi |-> 0]},
             times |-> {[base |-> 0, slope |-> 3]},
             seeds |-> {[a |-> 0, b |-> 2731]},
             maxTicks |-> MaxLongTicks, maxCold |-> MaxCold, answers |-> {NoFaults} ]

InitLong == Init /\ rect = [w |-> 640, h |-> 480] /\ dpr = 2

NextLong ==
  \/ HandleFileChange
  \/ RunEffect(EnvLong)
  \/ Tick(EnvLong)
  \/ Unmount(EnvLong)

SpecLong == InitLong /\ [][NextLong]_vars

\* the bar mapping over analysers of every size: draw() computes the bars from
\* bufferLength, whatever fftSize the analyser was given
EnvBars == [Env EXCEPT !.maxTicks = MaxBarTicks, !.maxCold = MaxBarTicks]

InitBars == InitCommon /\ fftSize \in FftSizes

NextBars ==
  \/ HandleFileChange
  \/ RunEffect(EnvBars)
  \/ Tick(EnvBars)
  \/ Resize
  \/ Unmount(EnvBars)

SpecBars == InitBars /\ [][NextBars]_vars

\* runs in which the platform fails: disconnect calls that throw, a canvas
\* that gives no 2D context, an AudioContext constructor that throws
Answers ==
  [ faults : SUBSET {"source.disconnect", "analyser.disconnect"},
    ctx2d : BOOLEAN,
    audioCtx : BOOLEAN ]

EnvFault == [ freqs |-> {[lo |-> 0, hi |-> 0], [lo |-> 255, hi |-> 0]},
              times |-> {[base |-> 0, slope |-> 3]},
              seeds |-> {[a |-> 0, b |-> 2731]},
              maxTicks |-> MaxFaultTicks, maxCold |-> MaxFaultTicks,
              answers |-> Answers ]

InitFault == Init /\ rect = [w |-> 640, h |-> 480] /\ dpr = 2

NextFault ==
  \/ HandleFileChange
  \/ RunEffect(EnvFault)
  \/ Tick(EnvFault)
  \/ Resize
  \/ Unmount(EnvFault)

SpecFault == InitFault /\ [][NextFault]_vars

\* runs with the playback controls
EnvPlay == [ freqs |-> {[lo |-> 255, hi |-> 0]},
             times |-> {[base |-> 0, slope |-> 3]},
             seeds |-> {[a |-> 0, b |-> 2731]},
             maxTicks |-> MaxPlayTicks, maxCold |-> MaxPlayTicks,
             answers |-> {NoFaults} ]

InitPlay == Init /\ rect = [w |-> 640, h |-> 480] /\ dpr = 2

NextPlay ==
  \/ HandleFileChange
  \/ RunEffect(EnvPlay)
  \/ Tick(EnvPlay)
  \/ HandlePlay
  \/ ResumeSettles
  \/ HandlePause
  \/ Ended
  \/ Unmount(EnvPlay)

SpecPlay == InitPlay /\ [][NextPlay]_vars

\* ================================================================ claims
IsTeardownOp(op) ==
  op \in {"cancelAnimationFrame", "source.disconnect", "analyser.disconnect", "audioCtx.close"}

TeardownRank(op) ==
  CASE op = "cancelAnimationFrame" -> 0
    [] op = "source.disconnect" -> 1
    [] op = "analyser.disconnect" -> 2
    [] op = "audioCtx.close" -> 3

\* C1: at every point of every handler at most one frame callback is pending
\* and at most one analysis connection is active; an audio context is created
\* only when no callback is pending and no connection is active, and a frame
\* is requested only when no callback is pending and no other attachment is
\* connected.
C1_OneClockOneConnection ==
  /\ Cardinality(rt.pending) <= 1
  /\ Cardinality(ActiveConns(rt)) <= 1
  /\ \A i \in DOMAIN rt.log :
       LET e == rt.log[i]
       IN /\ e.pend <= 1
          /\ Cardinality(e.conns) <= 1
          /\ e.op = "new AudioContext" => e.pend = 0 /\ e.conns = {}
          /\ e.op = "requestAnimationFrame" => e.pend = 0 /\ e.conns \subseteq {e.att}

\* C1 witness: a second attachment's context was created after the first
\* attachment, which had a pending callback and an active connection, was torn down.
C1_Witness ==
  /\ 1 \in tornDown
  /\ \E i \in DOMAIN rt.log : rt.log[i].op = "new AudioContext" /\ rt.log[i].att = 2
  /\ \E i \in DOMAIN rt.log :
       rt.log[i].op = "cancelAnimationFrame" /\ rt.log[i].pend = 1 /\ rt.log[i].conns = {1}

\* C2: no draw() runs for an attachment whose teardown has begun, and no
\* callback of such an attachment stays pending.
C2_NoTickAfterTeardown ==
  [][ /\ \A a \in Atts : attTicks'[a] # attTicks[a] => a \notin tornDown'
      /\ \A p \in rt'.pending : p.att \notin tornDown' ]_vars

\* C2 witness: an attachment that had drawn twice, with its next callback
\* pending, was torn down.
C2_Witness ==
  /\ 1 \in tornDown
  /\ attTicks[1] >= 2
  /\ rt.pending = {}
  /\ \E i \in DOMAIN rt.log : rt.log[i].op = "cancelAnimationFrame" /\ rt.log[i].pend = 1

\* C3: in every run of cleanup() and of the effect teardown, the frame callback
\* is cancelled before any node is disconnected or the context closed, the
\* source is disconnected before the analyser and the analyser before the
\* context is closed, and no callback is pending at a disconnect or a close.
C3_TeardownOrder ==
  \A i \in DOMAIN rt.log :
    LET e == rt.log[i]
    IN (e.by \in {"cleanup", "teardown"} /\ IsTeardownOp(e.op)) =>
         /\ e.op # "cancelAnimationFrame" =>
              /\ e.pend = 0
              /\ \E j \in 1..(i - 1) :
                   rt.log[j].call = e.call /\ rt.log[j].op = "cancelAnimationFrame"
         /\ \A j \in 1..(i - 1) :
              (rt.log[j].call = e.call /\ IsTeardownOp(rt.log[j].op)) =>
                TeardownRank(rt.log[j].op) < TeardownRank(e.op)

\* C3 witness: one teardown run cancelled a pending callback, disconnected both
\* nodes and closed the context.
C3_Witness ==
  \E c \in 1..rt.calls :
    /\ \E i \in DOMAIN rt.log :
         rt.log[i].call = c /\ rt.log[i].op = "cancelAnimationFrame" /\ rt.log[i].pend = 1
    /\ \A op \in {"source.disconnect", "analyser.disconnect", "audioCtx.close"} :
         \E i \in DOMAIN rt.log : rt.log[i].call = c /\ rt.log[i].op = op

\* C4: once the effect has run for a second file, the pipeline runs for it:
\* exactly one pending frame callback and exactly one active analysis connection.
C4_ReplacedSourceRuns ==
  (mounted /\ effectFile > 1) =>
    /\ Cardinality(rt.pending) = 1
    /\ Cardinality(ActiveConns(rt)) = 1

\* The code defines no resize threshold; the claim is stated for the largest
\* threshold a resize between two of the modelled layout sizes exceeds.
MinSide(r) == Min(r.w, r.h)
ResizeThreshold ==
  CHOOSE d \in 0..2000 :
    /\ \E r1, r2 \in RectSizes : Abs(MinSide(r1) - MinSide(r2)) = d + 1
    /\ \A r1, r2 \in RectSizes : Abs(MinSide(r1) - MinSide(r2)) <= d + 1

\* C5: a resize of a running pipeline that changes min(W,H) by more than the
\* threshold reinitializes the particles; a smaller one leaves them unchanged.
C5_ResizeReinitializesParticles ==
  [][ (rt.listeners # {} /\ rect' # rect) =>
        IF Abs(Min(canvas'.width, canvas'.height) - Min(canvas.width, canvas.height))
             > ResizeThreshold
        THEN particlesGen' = particlesGen + 1
        ELSE particlesRef' = particlesRef ]_vars

\* C6: the pulse of every draw is in [0, 1].
C6_PulseInUnitRange ==
  frame.att # null => frame.pulse >= 0 /\ frame.pulse <= ONE

\* C6 witness: after a history that holds a draw without bass, a draw whose
\* amplified smoothed bass exceeds 1 and whose pulse is 1.
C6_Witness ==
  /\ frame.att # null
  /\ coldTicks > 0
  /\ RoundDiv(frame.smoothedBass * 16, 10) > ONE
  /\ frame.pulse = ONE

\* C7: a draw reads as smoothing state what the previous draw of its
\* attachment wrote, 0 if it is the attachment's first draw; a draw writes its
\* smoothed bass, and no other step changes the smoothing state.
C7_BassStateCarried ==
  [][ IF ticks' = ticks
      THEN lastBassRef' = lastBassRef
      ELSE /\ frame'.last = (IF attTicks[frame'.att] = 0 THEN 0 ELSE lastBassRef)
           /\ lastBassRef' = frame'.smoothedBass ]_vars

\* C7 witness: a draw that read a non-zero state and wrote a different one.
C7_Witness ==
  /\ frame.att # null
  /\ attTicks[frame.att] >= 2
  /\ frame.last > 0
  /\ lastBassRef = frame.smoothedBass
  /\ frame.smoothedBass # frame.last

\* C8: while every draw of an attachment has had its bass bins at 255, the
\* pulse never decreases from one draw to the next, and from the 12th draw on
\* it is exactly 1.
C8_HotBassSaturates ==
  /\ [](( /\ coldTicks = 0
          /\ frame.att # null
          /\ attTicks[frame.att] >= 12 ) => frame.pulse = ONE)
  /\ [][ (coldTicks' = 0 /\ ticks' # ticks) =>
           frame'.pulse >= (IF frame.att = frame'.att THEN frame.pulse ELSE 0) ]_vars

\* C8 witness: a 12th or later draw of an all-hot run, with pulse 1.
C8_Witness ==
  /\ coldTicks = 0
  /\ frame.att # null
  /\ attTicks[frame.att] >= 12
  /\ frame.pulse = ONE

\* C9: the waveform of every draw has exactly 256 points on a path that starts
\* with moveTo and ends with closePath; when all time-domain samples are 128,
\* every point's radius is baseRadius.
C9_WaveformFlatAtBaseRadius ==
  frame.att # null =>
    LET w == frameWave(frame)
        ops == wavePathOps(Cardinality(DOMAIN w))
    IN /\ DOMAIN w = 1..256
       /\ ops[1] = "moveTo"
       /\ ops[Cardinality(DOMAIN ops)] = "closePath"
       /\ (\A idx \in 0..(frame.size - 1) : timeAt(frame.time, idx) = 128) =>
            \A i \in DOMAIN w : w[i] = frame.baseRadius

\* C9 witness: a draw of flat 128 samples with a non-zero pulse on a surface
\* resized since the attachment began.
C9_Witness ==
  /\ frame.att # null
  /\ frame.time = [base |-> 128, slope |-> 0]
  /\ frame.pulse > 0
  /\ frame.baseRadius # RoundDiv(Min(frame.W, frame.H) * 12 * PX, 100)

C11_ParticlesKeepCountAndDistance ==
  /\ [](particlesGen > 0 =>
          /\ DOMAIN particlesRef = 1..70
          /\ \A i \in DOMAIN particlesRef :
               /\ particlesRef[i].distance >= geo.baseRadius + 20 * PX
               /\ particlesRef[i].distance <= geo.baseRadius + 260 * PX)
  /\ [][ IF particlesGen' # particlesGen
         THEN TRUE
         ELSE IF ticks' # ticks
              THEN /\ DOMAIN particlesRef' = DOMAIN particlesRef
                   /\ \A i \in DOMAIN particlesRef :
                        particlesRef'[i] =
                          [particlesRef[i] EXCEPT !.baseAngle = particlesRef'[i].baseAngle]
              ELSE particlesRef' = particlesRef ]_vars

\* C11 witness: after a resize and three draws with a pulse, a particle sits
\* within a pixel of the upper distance bound and its angle has moved.
C11_Witness ==
  /\ particlesGen > 0
  /\ attTicks[1] >= 3
  /\ frame.pulse > 0
  /\ frame.baseRadius # RoundDiv(Min(frame.W, frame.H) * 12 * PX, 100)
  /\ \E i \in DOMAIN particlesRef :
       /\ particlesRef[i].distance > geo.baseRadius + 259 * PX
       /\ particlesRef[i].baseAngle # 0

\* C12: every draw adds 0.0009 + pulse * 0.006 to rotation, a strict increase
\* (the first draw of an attachment adds it to 0); no other step, a resize
\* included, changes rotation.
C12_RotationMonotone ==
  [][ IF ticks' # ticks
      THEN LET before == IF attTicks[frame'.att] = 0 THEN 0 ELSE geo.rotation
           IN /\ geo'.rotation = before + 9 * (ANG \div 10000)
                                         + (frame'.pulse * 6 * (ANG \div 1000)) \div ONE
              /\ geo'.rotation > before
      ELSE geo'.rotation = geo.rotation ]_vars

\* C12 witness: a third draw of an attachment, after a resize, whose rotation
\* exceeds what three draws without pulse add.
C12_Witness ==
  /\ frame.att # null
  /\ attTicks[frame.att] >= 3
  /\ frame.baseRadius # RoundDiv(Min(frame.W, frame.H) * 12 * PX, 100)
  /\ geo.rotation > 3 * 9 * (ANG \div 10000)

\* C16: the baseRadius a draw uses is min(W, H) * 0.12 of the W and H the same
\* draw reads.
C16_BaseRadiusFollowsSurface ==
  frame.att # null => frame.baseRadius = (Min(frame.W, frame.H) * 12 * PX) \div 100

C13_TeardownIdempotent ==
  /\ rt.rejections = 0
  /\ (\E i \in DOMAIN rt.log : rt.log[i].by \in {"cleanup", "teardown"}) =>
       (rt.thrown => \E i \in DOMAIN rt.log : rt.log[i].by \in {"effect", "draw"})
  /\ \A j \in DOMAIN rt.log :
       ( /\ IsTeardownOp(rt.log[j].op)
         /\ rt.log[j].att # null
         /\ \E i \in 1..(j - 1) :
              rt.log[i].op = rt.log[j].op /\ rt.log[i].att = rt.log[j].att ) =>
         LET after == IF j < Len(rt.log)
                      THEN [pend |-> rt.log[j + 1].pend, conns |-> rt.log[j + 1].conns]
                      ELSE [pend |-> Cardinality(rt.pending), conns |-> ActiveConns(rt)]
         IN after.pend = rt.log[j].pend /\ after.conns = rt.log[j].conns

\* C14: an attachment whose canvas gave no 2D context schedules no frame
\* callback: none is requested in its effect run and none is pending.
C14_NoTargetNoFrameClock ==
  ctx = "null" =>
    /\ rt.pending = {}
    /\ \A i \in DOMAIN rt.log : rt.log[i].op # "requestAnimationFrame"

GraphFailure(op) == op \in {"new AudioContext throws", "createMediaElementSource throws"}

\* C15: when new AudioContext() or createMediaElementSource throws in the
\* effect, the exception leaves the effect, the effect does nothing after it
\* (no connection, no listener, no frame request, no draw), and an attachment
\* is attempted only in an effect run for a changed audioFile.
C15_FailedAttachPropagates ==
  /\ [](\A i \in DOMAIN rt.log :
          GraphFailure(rt.log[i].op) =>
            /\ crashed /\ rt.thrown
            /\ i = Len(rt.log)
            /\ rt.pending = {}
            /\ attTicks[rt.log[i].att] = 0
            /\ rt.log[i].att \notin ActiveConns(rt))
  /\ [][ (\E i \in DOMAIN rt'.log : rt'.log[i].by = "effect" /\ rt'.log # rt.log) =>
           (~crashed /\ audioFile # effectFile /\ effectFile' = audioFile) ]_vars

\* C15 witness: with a first attachment running, the attach for a second file
\* failed at createMediaElementSource.
C15_Witness ==
  /\ crashed
  /\ attTicks[1] >= 1
  /\ 1 \in tornDown
  /\ \E i \in DOMAIN rt.log :
       rt.log[i].op = "createMediaElementSource throws" /\ rt.log[i].att = 2

\* C18: when a draw ends, the save/restore depth and the transform are what
\* they were when it began, the blend mode is source-over and shadowBlur is 0;
\* the blend mode is source-over and shadowBlur is 0 when the bars stage begins.
C18_DrawingStateScoped ==
  /\ Len(paint.state.stack) = Len(paint.atStart.stack)
  /\ paint.state.transform = paint.atStart.transform
  /\ paint.state.globalCompositeOperation = "source-over"
  /\ paint.state.shadowBlur = 0
  /\ paint.atBars.globalCompositeOperation = "source-over"
  /\ paint.atBars.shadowBlur = 0

\* C18 witness: a second or later draw with a pulse, whose particle stage ran
\* one level deep with the additive blend and a shadow, and whose waveform
\* was stroked with a shadow.
C18_Witness ==
  /\ frame.att # null
  /\ attTicks[frame.att] >= 2
  /\ frame.pulse > 0
  /\ Len(paint.inParticles.stack) = 1
  /\ paint.inParticles.globalCompositeOperation = "lighter"
  /\ paint.inParticles.shadowBlur > 28 * PX
  /\ paint.inWave.shadowBlur > 14 * PX

\* C19: at most one resize listener of the component is on the window, and
\* none once the component is unmounted.
C19_OneResizeListener ==
  /\ Cardinality(rt.listeners) <= 1
  /\ ~mounted => rt.listeners = {}

\* C20: once the component is unmounted, no audio context any attachment
\* created is still open, whichever disconnect calls threw.
C20_EveryContextClosed ==
  ~mounted => \A a \in Atts : rt.ctxState[a] # "open"

\* C20 witness: unmounted after two attachments, the second of which failed
\* part-way; analyser.disconnect threw in the unmount's cleanup(), and both
\* contexts are closed.
C20_Witness ==
  /\ ~mounted
  /\ crashed
  /\ rt.ctxState[1] = "closed"
  /\ rt.ctxState[2] = "closed"
  /\ "analyser.disconnect" \in rt.env.faults
  /\ \E i \in DOMAIN rt.log :
       rt.log[i].by = "cleanup" /\ rt.log[i].op = "analyser.disconnect" /\ rt.log[i].att = 2

\* C22: no object URL is revoked twice; while mounted every object URL but the
\* current audioFile has been revoked, and after unmount every object URL
\* handleFileChange created has been revoked exactly once.
C22_ObjectUrlsRevokedOnce ==
  \A u \in 1..nFiles :
    /\ revoked[u] <= 1
    /\ (mounted /\ u # audioFile) => revoked[u] = 1
    /\ ~mounted => revoked[u] = 1

\* C21: while the component is mounted and no handlePlay call is suspended at
\* its await, isPlaying is true exactly when the audio element is playing.
C21_IsPlayingMatchesElement ==
  (mounted /\ ~crashed /\ player.awaiting = 0) => (player.isPlaying <=> player.playing)

====
